---- MODULE Spec2Model ----
(***************************************************************************)
(* Model of the text-style pipeline: the Google Fonts catalog loader       *)
(* (google_fonts.py), the font/weight resolver (font_normalizer.py), the   *)
(* analysis normaliser (pipeline_utils.py) and the two merge               *)
(* implementations (process_pipeline.merge_results and the merge loop of   *)
(* run_pipeline_single.run_pipeline).                                      *)
(*                                                                         *)
(* Python values are modelled as follows:                                  *)
(*   str   a sequence of one-character strings, so that lower(), split(),  *)
(*         isdigit(), int() and str() are computed character by character; *)
(*   list  a sequence;                                                     *)
(*   dict  a function whose DOMAIN is the set of keys that are present;    *)
(*   None  the value None below.                                           *)
(***************************************************************************)
EXTENDS Integers, Sequences, FiniteSets, TLC

VARIABLES
    GOOGLE_FONTS,             \* font_normalizer.GOOGLE_FONTS: family -> sorted list of weights
    pc,                       \* position of the driver
    primary_font,             \* arguments of the current normalize_font_and_weight call
    fallback_font,
    visual_weight,
    requested_weight,         \* local of normalize_font_and_weight (line 26)
    resolved,                 \* value returned by normalize_font_and_weight
    text_regions,             \* craft_result['text_regions']
    gemini_result,            \* process_pipeline: list returned by analyze_all_crops
    normalized_gemini_result, \* process_pipeline: list returned by normalize_analysis_data
    merged_regions,           \* process_pipeline: final_output['text_regions']
    gemini_results,           \* run_pipeline: list built by STEP 2
    final_output_regions,     \* run_pipeline: list built by STEP 3
    raised,                   \* name of the exception that left the driver, or "none"
    rerun_regions,            \* process_pipeline: text_regions of a second normalise + merge
    img_rgb,                  \* color_detection: the crop, rows of (R, G, B) pixels
    detected_color,           \* value returned by extract_dominant_text_color
    model_color,              \* argument of validate_color_against_model
    validation,               \* dict returned by validate_color_against_model
    crop_image_paths,         \* argument of analyze_text_crops_batch
    response,                 \* the model's response to the batch call
    predictions               \* list returned by analyze_text_crops_batch

colourVars == <<img_rgb, detected_color, model_color, validation>>

batchVars == <<crop_image_paths, response, predictions>>

vars == <<GOOGLE_FONTS, pc, primary_font, fallback_font, visual_weight,
          requested_weight, resolved, text_regions, gemini_result,
          normalized_gemini_result, merged_regions, gemini_results,
          final_output_regions, raised, rerun_regions, colourVars, batchVars>>

(***************************************************************************)
(* Bounds of the model.                                                    *)
(***************************************************************************)
MaxVariants == 2
MaxRegions == 2
MaxCrops == 2

(***************************************************************************)
(* Python values and the str operations the code uses.                     *)
(***************************************************************************)
None == [py |-> "None"]
EmptyDict == [k \in {} |-> None]
EmptyStr == << >>

dict_get(d, k, default) == IF k \in DOMAIN d THEN d[k] ELSE default

dict_set(d, k, v) == [x \in (DOMAIN d) \cup {k} |-> IF x = k THEN v ELSE d[x]]

UpperChars == <<"A","B","C","D","E","F","G","H","I","J","K","L","M",
                "N","O","P","Q","R","S","T","U","V","W","X","Y","Z">>
LowerChars == <<"a","b","c","d","e","f","g","h","i","j","k","l","m",
                "n","o","p","q","r","s","t","u","v","w","x","y","z">>
DigitChars == <<"0","1","2","3","4","5","6","7","8","9">>

lower_char(c) ==
    IF \E i \in 1..26 : UpperChars[i] = c
    THEN LowerChars[CHOOSE i \in 1..26 : UpperChars[i] = c]
    ELSE c

lower(s) == [i \in 1..Len(s) |-> lower_char(s[i])]

isdigit(s) == Len(s) > 0 /\ \A i \in 1..Len(s) : \E d \in 1..10 : DigitChars[d] = s[i]

digit_value(c) == (CHOOSE d \in 1..10 : DigitChars[d] = c) - 1

RECURSIVE int_of(_)
int_of(s) ==
    IF Len(s) = 0 THEN 0
    ELSE 10 * int_of(SubSeq(s, 1, Len(s) - 1)) + digit_value(s[Len(s)])

RECURSIVE str_of(_)
str_of(n) ==
    IF n < 10 THEN <<DigitChars[n + 1]>>
    ELSE str_of(n \div 10) \o <<DigitChars[(n % 10) + 1]>>

endswith(s, suffix) ==
    /\ Len(s) >= Len(suffix)
    /\ SubSeq(s, Len(s) - Len(suffix) + 1, Len(s)) = suffix

\* s[:-n]
drop_last(s, n) == IF Len(s) <= n THEN EmptyStr ELSE SubSeq(s, 1, Len(s) - n)

RECURSIVE split(_, _)
split(s, sep) ==
    IF \A i \in 1..Len(s) : s[i] # sep THEN <<s>>
    ELSE LET i == CHOOSE i \in 1..Len(s) :
                      s[i] = sep /\ \A j \in 1..(i - 1) : s[j] # sep
         IN  <<SubSeq(s, 1, i - 1)>> \o split(SubSeq(s, i + 1, Len(s)), sep)

Abs(x) == IF x < 0 THEN -x ELSE x

RECURSIVE sorted_set(_)
sorted_set(S) ==
    IF S = {} THEN << >>
    ELSE LET m == CHOOSE x \in S : \A y \in S : x <= y
         IN  <<m>> \o sorted_set(S \ {m})

Range(s) == {s[i] : i \in 1..Len(s)}

SeqsUpTo(S, n) == UNION {[1..k -> S] : k \in 0..n}

(***************************************************************************)
(* google_fonts.py                                                         *)
(***************************************************************************)
ITALIC == <<"i","t","a","l","i","c">>

VARIANT_TO_WEIGHT ==
    (<<"t","h","i","n">> :> 100) @@
    (<<"e","x","t","r","a","l","i","g","h","t">> :> 200) @@
    (<<"l","i","g","h","t">> :> 300) @@
    (<<"r","e","g","u","l","a","r">> :> 400) @@
    (<<"m","e","d","i","u","m">> :> 500) @@
    (<<"s","e","m","i","b","o","l","d">> :> 600) @@
    (<<"b","o","l","d">> :> 700) @@
    (<<"e","x","t","r","a","b","o","l","d">> :> 800) @@
    (<<"b","l","a","c","k">> :> 900) @@
    (ITALIC :> 400) @@
    (<<"r","e","g","u","l","a","r","i","t","a","l","i","c">> :> 400)

\* The weights one variant string contributes (lines 47-61).
variant_weights(v) ==
    IF v = ITALIC THEN {400}
    ELSE IF isdigit(v) THEN {int_of(v)}
    ELSE IF isdigit(drop_last(v, 6)) /\ endswith(v, ITALIC) THEN {int_of(drop_last(v, 6))}
    ELSE IF v \in DOMAIN VARIANT_TO_WEIGHT /\ VARIANT_TO_WEIGHT[v] # 0
         THEN {VARIANT_TO_WEIGHT[v]}
    ELSE {}

\* font_map[family] = sorted(set(weights))
unsorted_family_weights(variants) ==
    LET ws == UNION {variant_weights(variants[i]) : i \in 1..Len(variants)}
        first(w) == CHOOSE i \in 1..Len(variants) :
                        /\ w \in variant_weights(variants[i])
                        /\ \A j \in 1..(i - 1) : w \notin variant_weights(variants[j])
        RECURSIVE in_order(_)
        in_order(S) ==
            IF S = {} THEN << >>
            ELSE LET m == CHOOSE x \in S : \A y \in S : first(x) <= first(y)
                 IN  <<m>> \o in_order(S \ {m})
    IN  in_order(ws)

family_weights(variants) ==
    sorted_set(UNION {variant_weights(variants[i]) : i \in 1..Len(variants)})

\* items: family -> list of variant strings, as data["items"] gives them.
fetch_google_fonts(items) == [family \in DOMAIN items |-> family_weights(items[family])]

(***************************************************************************)
(* font_normalizer.py                                                      *)
(***************************************************************************)
VISUAL_TO_NUMERIC ==
    (<<"r","e","g","u","l","a","r">> :> 400) @@
    (<<"m","e","d","i","u","m">> :> 500) @@
    (<<"s","e","m","i","b","o","l","d">> :> 600) @@
    (<<"b","o","l","d">> :> 700) @@
    (<<"e","x","t","r","a","b","o","l","d">> :> 800) @@
    (<<"b","l","a","c","k">> :> 900) @@
    (<<"t","h","i","n">> :> 100)

closest_weight_last(requested, available) ==
    IF Len(available) = 0 THEN 400
    ELSE LET d(i) == Abs(available[i] - requested)
             i == CHOOSE i \in 1..Len(available) :
                      /\ \A j \in 1..Len(available) : d(i) <= d(j)
                      /\ \A j \in (i + 1)..Len(available) : d(i) < d(j)
         IN  available[i]

\* min(available, key=...) returns the first minimal element in iteration order.
closest_weight(requested, available) ==
    IF Len(available) = 0 THEN 400
    ELSE LET d(i) == Abs(available[i] - requested)
             i == CHOOSE i \in 1..Len(available) :
                      /\ \A j \in 1..Len(available) : d(i) <= d(j)
                      /\ \A j \in 1..(i - 1) : d(j) > d(i)
         IN  available[i]

requested_weight_no_lower(weight_label) == dict_get(VISUAL_TO_NUMERIC, weight_label, 400)

requested_weight_of(weight_label) == dict_get(VISUAL_TO_NUMERIC, lower(weight_label), 400)

normalize_font_and_weight_fallback_first(fonts, primary, fallback, weight_label) ==
    LET requested == requested_weight_of(weight_label)
    IN  IF fallback \in DOMAIN fonts
        THEN <<fallback, closest_weight(requested, fonts[fallback])>>
        ELSE IF primary \in DOMAIN fonts
        THEN <<primary, closest_weight(requested, fonts[primary])>>
        ELSE <<"Inter", 400>>

normalize_font_and_weight(fonts, primary, fallback, weight_label) ==
    LET requested == requested_weight_of(weight_label)
    IN  IF primary \in DOMAIN fonts
        THEN <<primary, closest_weight(requested, fonts[primary])>>
        ELSE IF fallback \in DOMAIN fonts
        THEN <<fallback, closest_weight(requested, fonts[fallback])>>
        ELSE <<"Inter", 400>>

(***************************************************************************)
(* pipeline_utils.py                                                       *)
(***************************************************************************)
normalize_item_in_place(fonts, item) ==
    LET analysis == item["analysis"]
        final == normalize_font_and_weight(
                     fonts,
                     dict_get(analysis, "primary_font", ""),
                     dict_get(analysis, "fallback_font", ""),
                     dict_get(analysis, "font_weight", <<"r","e","g","u","l","a","r">>))
    IN  dict_set(item, "analysis",
                 dict_set(dict_set(dict_set(analysis, "primary_font", final[1]),
                                   "normalized_font", final[1]),
                          "normalized_weight", final[2]))

\* Lines 16-32 for one item whose 'analysis' key is present: the analysis dict
\* gains the two normalized fields.  new_item = item.copy() is a shallow copy,
\* so the dict that is written to is the one the input item holds.
normalize_item(fonts, item) ==
    LET analysis == item["analysis"]
        final == normalize_font_and_weight(
                     fonts,
                     dict_get(analysis, "primary_font", ""),
                     dict_get(analysis, "fallback_font", ""),
                     dict_get(analysis, "font_weight", <<"r","e","g","u","l","a","r">>))
    IN  dict_set(item, "analysis",
                 dict_set(dict_set(analysis, "normalized_font", final[1]),
                          "normalized_weight", final[2]))

\* Index of the first item on which new_item["analysis"] raises KeyError, or 0.
first_without_analysis(analysis_data) ==
    IF \A i \in 1..Len(analysis_data) : "analysis" \in DOMAIN analysis_data[i]
    THEN 0
    ELSE CHOOSE i \in 1..Len(analysis_data) :
             /\ "analysis" \notin DOMAIN analysis_data[i]
             /\ \A j \in 1..(i - 1) : "analysis" \in DOMAIN analysis_data[j]

\* What normalize_analysis_data does: the returned list (when no KeyError left
\* the loop) and the state of the caller's list afterwards.
normalize_analysis_data(fonts, analysis_data) ==
    LET k == first_without_analysis(analysis_data)
        done == IF k = 0 THEN Len(analysis_data) ELSE k - 1
        after == [i \in 1..Len(analysis_data) |->
                     IF i <= done THEN normalize_item(fonts, analysis_data[i])
                     ELSE analysis_data[i]]
    IN  [exc |-> IF k = 0 THEN "none" ELSE "KeyError",
         returned |-> IF k = 0 THEN after ELSE << >>,
         input_after |-> after]

(***************************************************************************)
(* process_pipeline.py                                                     *)
(***************************************************************************)
\* int(filename.split('_')[1].split('.')[0]), with the exception it raises.
\* The file names of the model hold letters, digits, '_' and '.', for which
\* int() accepts exactly the non-empty digit strings.
crop_region_id(filename) ==
    LET tokens == split(filename, "_")
    IN  IF Len(tokens) < 2 THEN [exc |-> "IndexError"]
        ELSE LET t == split(tokens[2], ".")[1]
             IN  IF isdigit(t) THEN [exc |-> "none", id |-> int_of(t)]
                 ELSE [exc |-> "ValueError"]

caught_index_error_only(exc) == exc = "IndexError"

\* except (IndexError, ValueError)
caught(exc) == exc \in {"IndexError", "ValueError"}

\* The exception one pass of the lookup loop (lines 27-35) raises, or "none".
lookup_step_exc(item) ==
    IF "crop" \notin DOMAIN item THEN "KeyError"
    ELSE LET r == crop_region_id(item["crop"])
         IN  IF r.exc # "none"
             THEN (IF caught(r.exc) THEN "none" ELSE r.exc)
             ELSE IF "analysis" \notin DOMAIN item
                  THEN (IF caught("KeyError") THEN "none" ELSE "KeyError")
                  ELSE "none"

RECURSIVE gemini_map_first_wins(_)
gemini_map_first_wins(items) ==
    IF Len(items) = 0 THEN EmptyDict
    ELSE LET m == gemini_map_first_wins(SubSeq(items, 1, Len(items) - 1))
             item == items[Len(items)]
             r == crop_region_id(item["crop"])
         IN  IF r.exc = "none" /\ r.id \notin DOMAIN m
             THEN dict_set(m, r.id, item["analysis"])
             ELSE m

\* gemini_map after the lookup loop over items on which no pass raises.
RECURSIVE gemini_map_of(_)
gemini_map_of(items) ==
    IF Len(items) = 0 THEN EmptyDict
    ELSE LET m == gemini_map_of(SubSeq(items, 1, Len(items) - 1))
             item == items[Len(items)]
             r == crop_region_id(item["crop"])
         IN  IF r.exc = "none" THEN dict_set(m, r.id, item["analysis"]) ELSE m

\* Lines 39-47 for one region.
merged_region(region, gemini_map) ==
    dict_set(region, "analysis",
             IF region["id"] \in DOMAIN gemini_map THEN gemini_map[region["id"]] ELSE None)

merge_loop_matched_only(regions, gemini_map) ==
    LET matched == SelectSeq(regions, LAMBDA r : r["id"] \in DOMAIN gemini_map)
    IN  [i \in 1..Len(matched) |-> merged_region(matched[i], gemini_map)]

\* Lines 38-47: one merged region per region, in order.
merge_loop(regions, gemini_map) ==
    [i \in 1..Len(regions) |-> merged_region(regions[i], gemini_map)]

\* merge_results(craft_result, gemini_result)['text_regions'], or the exception.
merge_results(regions, items) ==
    IF \E i \in 1..Len(items) : lookup_step_exc(items[i]) # "none"
    THEN LET i == CHOOSE i \in 1..Len(items) :
                      /\ lookup_step_exc(items[i]) # "none"
                      /\ \A j \in 1..(i - 1) : lookup_step_exc(items[j]) = "none"
         IN  [exc |-> lookup_step_exc(items[i]), returned |-> << >>]
    ELSE [exc |-> "none", returned |-> merge_loop(regions, gemini_map_of(items))]

(***************************************************************************)
(* run_pipeline_single.py                                                  *)
(***************************************************************************)
REGION_PREFIX == <<"r","e","g","i","o","n","_">>
PNG == <<".","p","n","g">>

\* crops_dir / f"region_{region['id']}.png"
crop_name(id) == REGION_PREFIX \o str_of(id) \o PNG

\* Characters in code-point order, as sorted() compares file names.
CodePointOrder == <<".">> \o DigitChars \o UpperChars \o <<"_">> \o LowerChars

code_point_rank(c) == CHOOSE i \in 1..Len(CodePointOrder) : CodePointOrder[i] = c

RECURSIVE str_le(_, _)
str_le(a, b) ==
    IF Len(a) = 0 THEN TRUE
    ELSE IF Len(b) = 0 THEN FALSE
    ELSE IF a[1] = b[1] THEN str_le(Tail(a), Tail(b))
    ELSE code_point_rank(a[1]) < code_point_rank(b[1])

RECURSIVE sorted_names(_)
sorted_names(S) ==
    IF S = {} THEN << >>
    ELSE LET m == CHOOSE x \in S : \A y \in S : str_le(x, y)
         IN  <<m>> \o sorted_names(S \ {m})

\* sorted(list(crops_dir.glob("*.png"))) after STEP 1 wrote one file per region id.
crop_files(regions) == sorted_names({crop_name(regions[i]["id"]) : i \in 1..Len(regions)})

\* Path.stem: the name without its last suffix.
stem(name) ==
    IF \A i \in 2..Len(name) : name[i] # "." THEN name
    ELSE LET i == CHOOSE i \in 2..Len(name) :
                      name[i] = "." /\ \A j \in (i + 1)..Len(name) : name[j] # "."
         IN  SubSeq(name, 1, i - 1)

\* crop_file.stem.split("_")[-1]
stem_region_id(name) == LET tokens == split(stem(name), "_") IN tokens[Len(tokens)]

\* The entry STEP 2 appends for one crop: analysis is the dict the model call
\* returned, or None when the call raised.
step2_entry(name, analysis) ==
    IF analysis = None
    THEN [region_id |-> stem_region_id(name), error |-> "error"]
    ELSE [region_id |-> stem_region_id(name), crop_path |-> name, analysis |-> analysis]

\* {str(res["region_id"]): res for res in gemini_results}
RECURSIVE single_gemini_map(_)
single_gemini_map(results) ==
    IF Len(results) = 0 THEN EmptyDict
    ELSE dict_set(single_gemini_map(SubSeq(results, 1, Len(results) - 1)),
                  results[Len(results)]["region_id"], results[Len(results)])

\* Lines 134-152.
text_content_of(fonts, g_data) ==
    LET primary == dict_get(g_data, "primary_font", "")
        fallback == dict_get(g_data, "fallback_font", "")
        weight == dict_get(g_data, "font_weight", <<"r","e","g","u","l","a","r">>)
        norm == normalize_font_and_weight(fonts, primary, fallback, weight)
    IN  [text |-> dict_get(g_data, "text", ""),
         role |-> dict_get(g_data, "role", "body"),
         raw_font |-> primary,
         raw_weight |-> weight,
         normalized_font |-> norm[1],
         normalized_weight |-> norm[2],
         text_case |-> dict_get(g_data, "text_case", "sentencecase"),
         color |-> dict_get(g_data, "text_color", "#000000")]

\* Lines 123-154 for one region.
combined_data(fonts, craft_region, gemini_map) ==
    LET rid == str_of(craft_region["id"])
    IN  [id |-> craft_region["id"],
         bbox |-> craft_region["bbox"],
         polygon |-> craft_region["polygon"],
         text_content |->
             IF rid \in DOMAIN gemini_map /\ "analysis" \in DOMAIN gemini_map[rid]
             THEN text_content_of(fonts, gemini_map[rid]["analysis"])
             ELSE EmptyDict]

\* STEP 3: final_output_regions.
step3_regions(fonts, regions, results) ==
    [i \in 1..Len(regions) |-> combined_data(fonts, regions[i], single_gemini_map(results))]

(***************************************************************************)
(* color_detection.py                                                      *)
(*                                                                         *)
(* An image is a list of rows, a row a list of (R, G, B) pixels.  Real     *)
(* numbers are kept as scaled integers: distances in hundredths,           *)
(* similarity_percent in tenths of a percent (the value after round(.., 1) *)
(* times ten).                                                             *)
(***************************************************************************)
HexChars == <<"0","1","2","3","4","5","6","7","8","9","A","B","C","D","E","F">>

\* "{:02X}"
hex2(n) == <<HexChars[(n \div 16) + 1], HexChars[(n % 16) + 1]>>

hex_color(rgb) == <<"#">> \o hex2(rgb[1]) \o hex2(rgb[2]) \o hex2(rgb[3])

upper_char(c) ==
    IF \E i \in 1..26 : LowerChars[i] = c
    THEN UpperChars[CHOOSE i \in 1..26 : LowerChars[i] = c]
    ELSE c

upper(s) == [i \in 1..Len(s) |-> upper_char(s[i])]

\* The value int(c, 16) gives each hex digit, in either letter case.
HexValue ==
    [c \in {HexChars[d] : d \in 1..16} \cup {lower_char(HexChars[d]) : d \in 1..16} |->
        (CHOOSE d \in 1..16 : HexChars[d] = upper_char(c)) - 1]

is_hex_char(c) == c \in DOMAIN HexValue

hex_char_value(c) == HexValue[c]

\* int(s, 16) raises ValueError unless s is made of hex digits; the strings of
\* the model hold letters, digits and '#'.
int16_ok(s) == Len(s) > 0 /\ \A i \in 1..Len(s) : is_hex_char(s[i])

RECURSIVE int16(_)
int16(s) ==
    IF Len(s) = 0 THEN 0
    ELSE 16 * int16(SubSeq(s, 1, Len(s) - 1)) + hex_char_value(s[Len(s)])

\* s[a:b] with 0 <= a <= b
slice(s, a, b) == SubSeq(s, a + 1, IF b < Len(s) THEN b ELSE Len(s))

Height(img) == Len(img)
Width(img) == IF Len(img) = 0 THEN 0 ELSE Len(img[1])
Positions(img) == (1..Height(img)) \X (1..Width(img))

\* The V channel of cv2.COLOR_BGR2HSV for 8-bit images is max(B, G, R).
value_channel(p) ==
    LET m == IF p[1] >= p[2] THEN p[1] ELSE p[2] IN IF m >= p[3] THEN m ELSE p[3]

\* cv2.threshold(V, 200, 255, cv2.THRESH_BINARY_INV): white where V <= 200.
threshold_mask(img) ==
    [y \in 1..Height(img) |-> [x \in 1..Width(img) |-> value_channel(img[y][x]) <= 200]]

\* The 3x3 MORPH_ELLIPSE structuring element is the cross; positions outside
\* the image take no part (the default border of dilate and erode).
cross(img, y, x) ==
    {q \in Positions(img) :
        \/ q = <<y, x>>
        \/ q[1] = y /\ (q[2] = x - 1 \/ q[2] = x + 1)
        \/ q[2] = x /\ (q[1] = y - 1 \/ q[1] = y + 1)}

dilate(img, mask) ==
    [y \in 1..Height(img) |-> [x \in 1..Width(img) |->
        \E q \in cross(img, y, x) : mask[q[1]][q[2]]]]

erode(img, mask) ==
    [y \in 1..Height(img) |-> [x \in 1..Width(img) |->
        \A q \in cross(img, y, x) : mask[q[1]][q[2]]]]

\* cv2.morphologyEx(mask, cv2.MORPH_CLOSE, kernel, iterations=1)
closed_mask(img) == erode(img, dilate(img, threshold_mask(img)))

\* Row-major list of the pixels at the positions where keep holds.
RECURSIVE pixels_from(_, _, _)
pixels_from(img, keep, n) ==
    IF n > Height(img) * Width(img) THEN << >>
    ELSE LET y == ((n - 1) \div Width(img)) + 1
             x == ((n - 1) % Width(img)) + 1
         IN  (IF keep[y][x] THEN <<img[y][x]>> ELSE << >>) \o pixels_from(img, keep, n + 1)

\* img_rgb[mask == 255], or img_rgb.reshape(-1, 3) when that is empty.
text_pixels(img) ==
    LET masked == pixels_from(img, closed_mask(img), 1)
        all == [y \in 1..Height(img) |-> [x \in 1..Width(img) |-> TRUE]]
    IN  IF Len(masked) = 0 THEN pixels_from(img, all, 1) ELSE masked

\* (text_pixels // 10) * 10
quantize(p) == [c \in 1..3 |-> (p[c] \div 10) * 10]

most_common_last(colours) ==
    LET count(c) == Cardinality({i \in 1..Len(colours) : colours[i] = c})
        i == CHOOSE i \in 1..Len(colours) :
                 /\ \A j \in 1..Len(colours) : count(colours[j]) <= count(colours[i])
                 /\ \A j \in (i + 1)..Len(colours) : colours[j] # colours[i]
                 /\ \A j \in (i + 1)..Len(colours) :
                       count(colours[j]) < count(colours[i])
    IN  colours[i]

\* Counter(pixels_tuple).most_common(1)[0][0]: the counter keeps the colours in
\* the order they were first met and the first of the most frequent is taken.
most_common(colours) ==
    LET count(c) == Cardinality({i \in 1..Len(colours) : colours[i] = c})
        i == CHOOSE i \in 1..Len(colours) :
                 /\ \A j \in 1..Len(colours) : count(colours[j]) <= count(colours[i])
                 /\ \A j \in 1..(i - 1) : count(colours[j]) < count(colours[i])
    IN  colours[i]

extract_dominant_text_color(img) ==
    LET selected == text_pixels(img)
        quantized == [i \in 1..Len(selected) |-> quantize(selected[i])]
    IN  hex_color(most_common(quantized))

\* The largest r in lo..hi with r * r <= n.
RECURSIVE isqrt_between(_, _, _)
isqrt_between(n, lo, hi) ==
    IF lo >= hi THEN lo
    ELSE LET mid == (lo + hi + 1) \div 2
         IN  IF mid * mid <= n THEN isqrt_between(n, mid, hi)
             ELSE isqrt_between(n, lo, mid - 1)

\* 100 * ((dr**2 + dg**2 + db**2) ** 0.5), rounded down.
square(d) == d * d

distance_x100(a, b) ==
    isqrt_between(10000 * (square(a[1] - b[1]) + square(a[2] - b[2]) + square(a[3] - b[3])),
                  0, 46340)

\* round(x, 1) of a value given in thousandths, in tenths.
round1(milli) == (milli + 50) \div 100

similarity_no_floor(a, b) == round1(100000 - (distance_x100(a, b) * 1000) \div 441)

\* round(max(0, 100 - distance / 4.41), 1), in tenths of a percent.
similarity(a, b) ==
    LET milli == 100000 - (distance_x100(a, b) * 1000) \div 441
    IN  round1(IF milli < 0 THEN 0 ELSE milli)

channels(colour) == <<slice(colour, 1, 3), slice(colour, 3, 5), slice(colour, 5, 7)>>

\* Lines 76-94 for an extracted colour and the model's colour: the dict that is
\* returned, or the exception.
compare_colors(detected, predicted) ==
    LET is_exact_match == upper(detected) = upper(predicted)
        result(sim) == [exc |-> "none",
                        returned |-> [detected_color |-> detected,
                                      model_color |-> predicted,
                                      exact_match |-> is_exact_match,
                                      similarity_percent |-> sim]]
    IN  IF Len(detected) = 7 /\ Len(predicted) = 7
        THEN IF \A c \in 1..3 : int16_ok(channels(detected)[c]) /\ int16_ok(channels(predicted)[c])
             THEN result(similarity([c \in 1..3 |-> int16(channels(detected)[c])],
                                    [c \in 1..3 |-> int16(channels(predicted)[c])]))
             ELSE [exc |-> "ValueError"]
        ELSE result(IF is_exact_match THEN 1000 ELSE 0)

(***************************************************************************)
(* The two drivers.  The detector and the style model are outside the      *)
(* repository: the regions and the analyses they produce are drawn from    *)
(* the sets below.                                                         *)
(***************************************************************************)
RegionIds == {1, 2}

Regions == {[id |-> i, bbox |-> "bbox", polygon |-> "polygon"] : i \in RegionIds}

CropNames ==
    { crop_name(1),
      crop_name(2),
      <<"r","e","g","i","o","n","_","0","1",".","j","p","g">>,
      <<"r","e","g","i","o","n","1",".","p","n","g">>,
      <<"r","e","g","i","o","n","_","x",".","p","n","g">> }

Analyses ==
    { [text |-> "SALE", role |-> "heading", primary_font |-> "Roboto",
       fallback_font |-> "Inter", font_weight |-> <<"b","o","l","d">>,
       text_case |-> "uppercase", text_color |-> "#FF0000", cta_intent |-> "none"],
      [text |-> "Buy now", role |-> "cta", primary_font |-> "Arial",
       fallback_font |-> "Roboto", font_weight |-> <<"M","e","d","i","u","m">>,
       text_case |-> "titlecase", text_color |-> "#102030", cta_intent |-> "buy_now"],
      [text |-> "new"] }

\* What analyze_all_crops appends for a crop the model call succeeded on.
Items == {[crop |-> c, analysis |-> a] : c \in CropNames, a \in Analyses}

\* The catalog the drivers run with.
PipelineFonts ==
    fetch_google_fonts([Roboto |-> << <<"6","0","0">>, <<"r","e","g","u","l","a","r">> >>,
                        Inter |-> << <<"7","0","0">> >>])

NoColour ==
    /\ img_rgb = << >>
    /\ detected_color = None
    /\ model_color = None
    /\ validation = None

NoBatch ==
    /\ crop_image_paths = << >>
    /\ response = None
    /\ predictions = None

NoPipeline ==
    /\ rerun_regions = << >>
    /\ text_regions = << >>
    /\ gemini_result = << >>
    /\ normalized_gemini_result = << >>
    /\ merged_regions = << >>
    /\ gemini_results = << >>
    /\ final_output_regions = << >>
    /\ raised = "none"

resolverVars == <<primary_font, fallback_font, visual_weight, requested_weight, resolved>>

Init ==
    /\ GOOGLE_FONTS = PipelineFonts
    /\ pc = "detect"
    /\ primary_font = ""
    /\ fallback_font = ""
    /\ visual_weight = EmptyStr
    /\ requested_weight = 0
    /\ resolved = None
    /\ NoPipeline
    /\ NoColour
    /\ NoBatch

\* The detector reports one more region.
DetectRegion(region) ==
    /\ pc = "detect"
    /\ Len(text_regions) < MaxRegions
    /\ text_regions' = Append(text_regions, region)
    /\ UNCHANGED <<colourVars, batchVars, rerun_regions, GOOGLE_FONTS, pc, resolverVars, gemini_result,
                   normalized_gemini_result, merged_regions, gemini_results,
                   final_output_regions, raised>>

\* process_pipeline stage 2: analyze_all_crops appends one result.
AnalyzeCrop(item) ==
    /\ pc \in {"detect", "analyse"}
    /\ Len(gemini_result) < MaxCrops
    /\ gemini_result' = Append(gemini_result, item)
    /\ pc' = "analyse"
    /\ UNCHANGED <<colourVars, batchVars, rerun_regions, GOOGLE_FONTS, resolverVars, text_regions,
                   normalized_gemini_result, merged_regions, gemini_results,
                   final_output_regions, raised>>

\* process_pipeline stage 3: normalize_analysis_data(gemini_result).
Normalize ==
    /\ pc \in {"detect", "analyse"}
    /\ LET res == normalize_analysis_data(GOOGLE_FONTS, gemini_result)
       IN  /\ gemini_result' = res.input_after
           /\ normalized_gemini_result' = res.returned
           /\ raised' = res.exc
           /\ pc' = IF res.exc = "none" THEN "normalized" ELSE "raised"
    /\ UNCHANGED <<colourVars, batchVars, rerun_regions, GOOGLE_FONTS, resolverVars, text_regions, merged_regions,
                   gemini_results, final_output_regions>>

\* process_pipeline stage 4: merge_results(craft_result, normalized_gemini_result).
Merge ==
    /\ pc = "normalized"
    /\ LET res == merge_results(text_regions, normalized_gemini_result)
       IN  /\ merged_regions' = res.returned
           /\ raised' = res.exc
           /\ pc' = IF res.exc = "none" THEN "merged" ELSE "raised"
    /\ UNCHANGED <<colourVars, batchVars, rerun_regions, GOOGLE_FONTS, resolverVars, text_regions, gemini_result,
                   normalized_gemini_result, gemini_results, final_output_regions>>

\* The same driver run once more on the same regions and the same analyses
\* list.  The list is the one the first run left behind: the analysis dicts
\* written to by the first normalisation are the objects the second one reads,
\* and the first run's normalized list holds the same dicts.  merged_regions is
\* the first output as it was saved (process_pipeline.py lines 133-134).
Rerun ==
    /\ pc = "merged"
    /\ LET norm == normalize_analysis_data(GOOGLE_FONTS, gemini_result)
           res == merge_results(text_regions, norm.returned)
       IN  /\ gemini_result' = norm.input_after
           /\ normalized_gemini_result' =
                  [i \in 1..Len(normalized_gemini_result) |->
                      dict_set(normalized_gemini_result[i], "analysis",
                               norm.input_after[i]["analysis"])]
           /\ rerun_regions' = res.returned
           /\ raised' = IF norm.exc # "none" THEN norm.exc ELSE res.exc
           /\ pc' = IF norm.exc = "none" /\ res.exc = "none" THEN "rerun_done" ELSE "raised"
    /\ UNCHANGED <<colourVars, batchVars, GOOGLE_FONTS, resolverVars, text_regions,
                   merged_regions, gemini_results, final_output_regions>>

\* run_pipeline STEP 2: the next crop file is analysed; the call returns a dict
\* or raises (analysis = None).
AnalyzeSingle(analysis) ==
    /\ pc \in {"detect", "step2"}
    /\ Len(gemini_results) < Len(crop_files(text_regions))
    /\ gemini_results' =
           Append(gemini_results,
                  step2_entry(crop_files(text_regions)[Len(gemini_results) + 1], analysis))
    /\ pc' = "step2"
    /\ UNCHANGED <<colourVars, batchVars, rerun_regions, GOOGLE_FONTS, resolverVars, text_regions, gemini_result,
                   normalized_gemini_result, merged_regions, final_output_regions,
                   raised>>

\* run_pipeline STEP 3, once every crop file has its entry.
MergeSingle ==
    /\ pc \in {"detect", "step2"}
    /\ Len(gemini_results) = Len(crop_files(text_regions))
    /\ final_output_regions' = step3_regions(GOOGLE_FONTS, text_regions, gemini_results)
    /\ pc' = "step3_done"
    /\ UNCHANGED <<colourVars, batchVars, rerun_regions, GOOGLE_FONTS, resolverVars, text_regions, gemini_result,
                   normalized_gemini_result, merged_regions, gemini_results, raised>>

Next ==
    \/ \E region \in Regions : DetectRegion(region)
    \/ \E item \in Items : AnalyzeCrop(item)
    \/ Normalize
    \/ Merge
    \/ Rerun
    \/ \E analysis \in Analyses \cup {None} : AnalyzeSingle(analysis)
    \/ MergeSingle

Spec == Init /\ [][Next]_vars

(***************************************************************************)
(* The same drivers when the list handed to normalize_analysis_data may    *)
(* hold items that lack the 'crop' or the 'analysis' key.                  *)
(***************************************************************************)
MalformedItems ==
    {[crop |-> c] : c \in {crop_name(1), crop_name(2)}}
        \cup {[analysis |-> a] : a \in Analyses}

PassMalformedItem(item) ==
    /\ pc \in {"detect", "analyse"}
    /\ Len(gemini_result) < MaxCrops
    /\ gemini_result' = Append(gemini_result, item)
    /\ pc' = "analyse"
    /\ UNCHANGED <<colourVars, batchVars, rerun_regions, GOOGLE_FONTS, resolverVars, text_regions,
                   normalized_gemini_result, merged_regions, gemini_results,
                   final_output_regions, raised>>

NextUntyped ==
    \/ Next
    \/ \E item \in MalformedItems : PassMalformedItem(item)

SpecUntyped == Init /\ [][NextUntyped]_vars

(***************************************************************************)
(* The resolver called directly: the catalog is loaded once at import      *)
(* (font_normalizer.py line 3) and normalize_font_and_weight is called     *)
(* with arbitrary strings.                                                 *)
(***************************************************************************)
Variants ==
    { <<"r","e","g","u","l","a","r">>,
      <<"6","0","0">>,
      <<"7","0","0">>,
      <<"9","0","0">>,
      <<"1","0","0","i","t","a","l","i","c">>,
      ITALIC,
      <<"c","o","n","d","e","n","s","e","d">> }

InterVariantLists ==
    { << >>,
      << <<"7","0","0">> >>,
      << <<"7","0","0">>, <<"r","e","g","u","l","a","r">> >> }

\* data["items"] of the metadata endpoint, as family -> variants.
ApiResponses ==
    UNION { { [f \in K |-> IF f = "Roboto" THEN r ELSE i] :
                r \in SeqsUpTo(Variants, MaxVariants), i \in InterVariantLists }
            : K \in SUBSET {"Roboto", "Inter"} }

\* load_google_fonts: the cached or fetched map, or {} when the fetch fails.
load_google_fonts == {fetch_google_fonts(items) : items \in ApiResponses} \cup {EmptyDict}

FontNames == {"Roboto", "Inter", "Arial"}

WeightLabels ==
    { <<"b","o","l","d">>, <<"B","o","l","d">>, <<"B","O","L","D">>,
      <<"m","e","d","i","u","m">>, <<"E","x","t","r","a","B","o","l","d">>,
      <<"t","h","i","n">>, <<"r","e","g","u","l","a","r">>,
      <<"S","e","m","i","b","o","l","d">>, <<"b","l","a","c","k">>,
      <<"h","e","a","v","y">>, <<"7","0","0">>, EmptyStr }

InitResolver ==
    /\ GOOGLE_FONTS \in load_google_fonts
    /\ pc = "call"
    /\ primary_font \in FontNames
    /\ fallback_font \in FontNames
    /\ visual_weight \in WeightLabels
    /\ requested_weight = 0
    /\ resolved = None
    /\ NoPipeline
    /\ NoColour
    /\ NoBatch

Resolve ==
    /\ pc = "call"
    /\ requested_weight' = requested_weight_of(visual_weight)
    /\ resolved' = normalize_font_and_weight(GOOGLE_FONTS, primary_font,
                                             fallback_font, visual_weight)
    /\ pc' = "returned"
    /\ UNCHANGED <<colourVars, batchVars, rerun_regions, GOOGLE_FONTS, primary_font, fallback_font, visual_weight,
                   text_regions, gemini_result, normalized_gemini_result,
                   merged_regions, gemini_results, final_output_regions, raised>>

NextResolver == Resolve

SpecResolver == InitResolver /\ [][NextResolver]_vars

InCatalog(f) == f \in DOMAIN GOOGLE_FONTS

\* C1: the resolved pair is catalog-valid (family is a key and the weight is one
\* of its weights), or the family is no key and the pair is exactly ("Inter", 400).
C1_ResolvedStyleValid ==
    pc = "returned" =>
        \/ InCatalog(resolved[1]) /\ resolved[2] \in Range(GOOGLE_FONTS[resolved[1]])
        \/ ~InCatalog(resolved[1]) /\ resolved = <<"Inter", 400>>

\* C2: a primary family with an empty weight set is treated as absent: the result
\* is the fallback with its nearest weight when the fallback has weights, and
\* ("Inter", 400) otherwise; apart from that catalog-independent hard fallback,
\* no family with an empty weight set is returned.
C2_EmptyWeightSetFallsThrough ==
    (pc = "returned" /\ InCatalog(primary_font) /\ GOOGLE_FONTS[primary_font] = << >>) =>
        /\ resolved =
              IF InCatalog(fallback_font) /\ GOOGLE_FONTS[fallback_font] # << >>
              THEN <<fallback_font,
                     closest_weight(requested_weight, GOOGLE_FONTS[fallback_font])>>
              ELSE <<"Inter", 400>>
        /\ \/ resolved = <<"Inter", 400>>
           \/ InCatalog(resolved[1]) /\ GOOGLE_FONTS[resolved[1]] # << >>

\* C3: when the result comes from a family with a non-empty weight set, its
\* weight is at minimal distance from the target over that set, and no weight
\* at the same distance is lower.
C3_NearestWeightLowerOnTie ==
    \A f \in {primary_font, fallback_font} :
        (pc = "returned" /\ resolved[1] = f /\ InCatalog(f) /\ GOOGLE_FONTS[f] # << >>) =>
            LET ws == Range(GOOGLE_FONTS[f])
                dist(w) == Abs(w - requested_weight)
            IN  /\ resolved[2] \in ws
                /\ \A w \in ws : dist(resolved[2]) <= dist(w)
                /\ \A w \in ws : dist(w) = dist(resolved[2]) => resolved[2] <= w

C3_Witness ==
    /\ pc = "returned"
    /\ requested_weight = 500
    /\ InCatalog(resolved[1])
    /\ GOOGLE_FONTS[resolved[1]] = <<400, 600>>
    /\ resolved[2] = 400

\* C4: the family is the primary when the primary is a key, the fallback when
\* only the fallback is a key, and the result is ("Inter", 400) when neither is.
C4_FallbackChain ==
    pc = "returned" =>
        /\ InCatalog(primary_font) => resolved[1] = primary_font
        /\ (~InCatalog(primary_font) /\ InCatalog(fallback_font)) =>
               resolved[1] = fallback_font
        /\ (~InCatalog(primary_font) /\ ~InCatalog(fallback_font)) =>
               resolved = <<"Inter", 400>>

C4_Witness ==
    /\ pc = "returned"
    /\ InCatalog(primary_font)
    /\ InCatalog(fallback_font)
    /\ primary_font # fallback_font
    /\ resolved[1] = primary_font

EqIgnoreCase(a, b) ==
    /\ Len(a) = Len(b)
    /\ \A i \in 1..Len(a) :
          \/ a[i] = b[i]
          \/ \E k \in 1..26 : {a[i], b[i]} = {UpperChars[k], LowerChars[k]}

LabelTable ==
    { << <<"t","h","i","n">>, 100 >>,
      << <<"r","e","g","u","l","a","r">>, 400 >>,
      << <<"m","e","d","i","u","m">>, 500 >>,
      << <<"s","e","m","i","b","o","l","d">>, 600 >>,
      << <<"b","o","l","d">>, 700 >>,
      << <<"e","x","t","r","a","b","o","l","d">>, 800 >>,
      << <<"b","l","a","c","k">>, 900 >> }

\* C5: a label equal to a table label up to letter case gets that label's
\* weight as target; every other label gets 400.
C5_LabelTableCaseInsensitive ==
    pc = "returned" =>
        /\ \A e \in LabelTable :
              EqIgnoreCase(visual_weight, e[1]) => requested_weight = e[2]
        /\ (\A e \in LabelTable : ~EqIgnoreCase(visual_weight, e[1])) =>
              requested_weight = 400

C5_Witness ==
    /\ pc = "returned"
    /\ visual_weight = <<"B","O","L","D">>
    /\ requested_weight = 700

(***************************************************************************)
(* Claims about the merge.                                                 *)
(***************************************************************************)
Max(S) == CHOOSE x \in S : \A y \in S : y <= x

\* C6: both merges return one record per region, the i-th record carrying the
\* i-th region's id, whatever crop names the analyses carry; neither raises.
C6_OneRecordPerRegionInOrder ==
    /\ raised = "none"
    /\ pc = "merged" =>
          /\ Len(merged_regions) = Len(text_regions)
          /\ \A i \in 1..Len(text_regions) :
                merged_regions[i]["id"] = text_regions[i]["id"]
    /\ pc = "step3_done" =>
          /\ Len(final_output_regions) = Len(text_regions)
          /\ \A i \in 1..Len(text_regions) :
                final_output_regions[i]["id"] = text_regions[i]["id"]

C6_Witness ==
    /\ pc = "merged"
    /\ Len(text_regions) = 2
    /\ Len(gemini_result) = 2
    /\ \E i \in 1..2 : merged_regions[i]["analysis"] = None
    /\ \E i \in 1..2 : merged_regions[i]["analysis"] # None

\* The items of the analyses list whose crop name gives region id n.
ItemsFor(items, n) ==
    {k \in 1..Len(items) :
        crop_region_id(items[k]["crop"]).exc = "none"
            /\ crop_region_id(items[k]["crop"]).id = n}

\* The entries of run_pipeline's result list for region id n.
EntriesFor(results, n) ==
    {k \in 1..Len(results) : results[k]["region_id"] = str_of(n)}

\* C7: a region with no matching analysis, or whose matching analysis is an
\* error sentinel, gets a record whose analysis field is present and is None,
\* in merge_results and in run_pipeline alike.
C7_NoAnalysisIsExplicitNull ==
    /\ pc = "merged" =>
          \A i \in 1..Len(text_regions) :
              ItemsFor(normalized_gemini_result, text_regions[i]["id"]) = {} =>
                  /\ "analysis" \in DOMAIN merged_regions[i]
                  /\ merged_regions[i]["analysis"] = None
    /\ pc = "step3_done" =>
          \A i \in 1..Len(text_regions) :
              LET S == EntriesFor(gemini_results, text_regions[i]["id"])
              IN  (S = {} \/ "error" \in DOMAIN gemini_results[Max(S)]) =>
                      /\ "text_content" \in DOMAIN final_output_regions[i]
                      /\ final_output_regions[i]["text_content"] = None

\* C8: when several analyses give the same region id, the merged record of
\* that region reflects the one that is last in the analyses list.
C8_LastAnalysisWins ==
    /\ pc = "merged" =>
          \A i \in 1..Len(text_regions) :
              LET S == ItemsFor(normalized_gemini_result, text_regions[i]["id"])
              IN  S # {} =>
                      merged_regions[i]["analysis"] =
                          normalized_gemini_result[Max(S)]["analysis"]
    /\ pc = "step3_done" =>
          \A i \in 1..Len(text_regions) :
              LET S == EntriesFor(gemini_results, text_regions[i]["id"])
              IN  (S # {} /\ "analysis" \in DOMAIN gemini_results[Max(S)]) =>
                      final_output_regions[i]["text_content"] =
                          text_content_of(GOOGLE_FONTS, gemini_results[Max(S)]["analysis"])

C8_Witness ==
    /\ pc = "merged"
    /\ \E i \in 1..Len(text_regions) :
          /\ ItemsFor(normalized_gemini_result, text_regions[i]["id"]) = {1, 2}
          /\ normalized_gemini_result[1]["analysis"] # normalized_gemini_result[2]["analysis"]
          /\ merged_regions[i]["analysis"] = normalized_gemini_result[2]["analysis"]

\* A crop name conforms when it has a '_' and the characters between its first
\* '_' and the next '_' or '.' (or the end) are one or more digits.
HasIntegerToken(name) ==
    \E i \in 1..Len(name) :
        /\ name[i] = "_"
        /\ \A j \in 1..(i - 1) : name[j] # "_"
        /\ \E e \in (i + 1)..(Len(name) + 1) :
              /\ e > i + 1
              /\ e = Len(name) + 1 \/ name[e] \in {"_", "."}
              /\ \A j \in (i + 1)..(e - 1) :
                    \E d \in 1..10 : DigitChars[d] = name[j]

\* C9: an analysis whose crop name does not conform is left out of the lookup:
\* merge_results raises nothing, no region gets that analysis, and the result
\* is the one the list without the non-conforming items gives.
C9_NonConformingNameIsSkipped ==
    /\ raised = "none"
    /\ pc = "merged" =>
          LET conforming == SelectSeq(normalized_gemini_result,
                                      LAMBDA item : HasIntegerToken(item["crop"]))
          IN  /\ merged_regions = merge_results(text_regions, conforming).returned
              /\ \A i \in 1..Len(text_regions) :
                    merged_regions[i]["analysis"] # None =>
                        \E k \in 1..Len(conforming) :
                            merged_regions[i]["analysis"] = conforming[k]["analysis"]

C9_Witness ==
    /\ pc = "merged"
    /\ \E k \in 1..Len(gemini_result) : ~HasIntegerToken(gemini_result[k]["crop"])
    /\ \E i \in 1..Len(text_regions) : merged_regions[i]["analysis"] # None

WellFormedItem(item) == {"crop", "analysis"} \subseteq DOMAIN item

\* C10: an item that lacks its 'crop' or its 'analysis' key is recovered
\* locally: normalisation and merge raise nothing and the regions are merged
\* against the well-formed items.
C10_MalformedItemRecoveredLocally ==
    /\ raised = "none"
    /\ pc = "merged" =>
          merged_regions =
              merge_loop(text_regions,
                         gemini_map_of(SelectSeq(normalized_gemini_result, WellFormedItem)))

\* C11: a second normalisation and merge of the same regions and the same
\* analyses list returns regions equal to the ones the first run returned.
C11_SecondRunGivesSameOutput ==
    pc = "rerun_done" => rerun_regions = merged_regions

C11_Witness ==
    /\ pc = "rerun_done"
    /\ Len(text_regions) = 2
    /\ \E i \in 1..2 : rerun_regions[i]["analysis"] # None
    /\ \E i \in 1..2 : rerun_regions[i]["analysis"] = None

(***************************************************************************)
(* The colour functions called on a crop.                                  *)
(***************************************************************************)
MaxPixels == 4

Pixels == { <<3, 5, 9>>, <<200, 0, 0>>, <<201, 9, 9>>, <<255, 255, 255>> }

Shapes == {hw \in (1..MaxPixels) \X (1..MaxPixels) : hw[1] * hw[2] <= MaxPixels}

Images == UNION {[1..hw[1] -> [1..hw[2] -> Pixels]] : hw \in Shapes}

ModelColours ==
    { <<"#","0","0","0","0","0","0">>,
      <<"#","F","F","F","F","F","F">>,
      <<"#","f","f","f","f","f","f">>,
      <<"#","C","8","0","0","0","0">>,
      <<"#","c","8","0","0","0","0">>,
      <<"#","F","A","F","A","F","0">>,
      <<"#","G","G","G","G","G","G">>,
      <<"1","2","3","4","5","6","7">>,
      <<"#","F","F","F">>,
      <<"r","e","d">>,
      EmptyStr }

InitColour ==
    /\ GOOGLE_FONTS = EmptyDict
    /\ pc = "image"
    /\ primary_font = ""
    /\ fallback_font = ""
    /\ visual_weight = EmptyStr
    /\ requested_weight = 0
    /\ resolved = None
    /\ NoPipeline
    /\ NoBatch
    /\ img_rgb \in Images
    /\ detected_color = None
    /\ model_color = None
    /\ validation = None

\* extract_dominant_text_color(image_path)
Extract ==
    /\ pc = "image"
    /\ detected_color' = extract_dominant_text_color(img_rgb)
    /\ pc' = "extracted"
    /\ UNCHANGED <<img_rgb, model_color, validation, batchVars, GOOGLE_FONTS,
                   resolverVars, text_regions, gemini_result, normalized_gemini_result,
                   merged_regions, gemini_results, final_output_regions, raised,
                   rerun_regions>>

\* validate_color_against_model(image_path, colour)
Validate(colour) ==
    /\ pc = "image"
    /\ model_color' = colour
    /\ detected_color' = extract_dominant_text_color(img_rgb)
    /\ LET res == compare_colors(detected_color', colour)
       IN  /\ raised' = res.exc
           /\ validation' = IF res.exc = "none" THEN res.returned ELSE None
           /\ pc' = IF res.exc = "none" THEN "validated" ELSE "raised"
    /\ UNCHANGED <<img_rgb, batchVars, GOOGLE_FONTS, resolverVars, text_regions,
                   gemini_result, normalized_gemini_result, merged_regions,
                   gemini_results, final_output_regions, rerun_regions>>

NextColour ==
    \/ Extract
    \/ \E colour \in ModelColours : Validate(colour)

SpecColour == InitColour /\ [][NextColour]_vars

\* '#' followed by six hex digits.
WellFormedColour(s) ==
    /\ Len(s) = 7
    /\ s[1] = "#"
    /\ \A i \in 2..7 : \E d \in 1..16 : s[i] \in {HexChars[d], lower_char(HexChars[d])}

\* C12: for a predicted colour that is not '#' and six hex digits, nothing is
\* raised and similarity_percent is 0, or 100 when the predicted string is the
\* extracted one.
C12_MalformedColourGivesZero ==
    (pc \in {"validated", "raised"} /\ ~WellFormedColour(model_color)) =>
        /\ raised = "none"
        /\ validation # None
        /\ validation["similarity_percent"] =
              IF model_color = detected_color THEN 1000 ELSE 0

\* C13: for well-formed colours similarity_percent is within [0, 100]; it is
\* 100 with exact_match when the colours are equal up to letter case, and 0
\* for black against white.
C13_SimilarityRange ==
    (pc \in {"validated", "raised"} /\ WellFormedColour(model_color)) =>
        /\ raised = "none"
        /\ validation["similarity_percent"] >= 0
        /\ validation["similarity_percent"] <= 1000
        /\ EqIgnoreCase(detected_color, model_color) =>
              /\ validation["similarity_percent"] = 1000
              /\ validation["exact_match"]
        /\ (detected_color = <<"#","0","0","0","0","0","0">>
              /\ upper(model_color) = <<"#","F","F","F","F","F","F">>) =>
              validation["similarity_percent"] = 0

C13_Witness ==
    /\ pc = "validated"
    /\ detected_color = <<"#","0","0","0","0","0","0">>
    /\ model_color = <<"#","f","f","f","f","f","f">>
    /\ validation["similarity_percent"] = 0
    /\ ~validation["exact_match"]

\* The positions the extractor samples: those of the foreground mask, or all
\* positions when the mask selects none.
Sampled(img) ==
    LET fg == {q \in Positions(img) : closed_mask(img)[q[1]][q[2]]}
    IN  IF fg = {} THEN Positions(img) ELSE fg

Bucket(img, q) == [c \in 1..3 |-> img[q[1]][q[2]][c] - (img[q[1]][q[2]][c] % 10)]

\* C16: the extracted colour is a most frequent quantized colour of the sampled
\* pixels, and among the most frequent ones the one met first in row-major order.
C16_DominantIsFirstMostFrequent ==
    detected_color # None =>
        LET sampled == Sampled(img_rgb)
            rank == [q \in sampled |-> (q[1] - 1) * Width(img_rgb) + q[2]]
            bucket == [q \in sampled |-> Bucket(img_rgb, q)]
            count == [q \in sampled |-> Cardinality({r \in sampled : bucket[r] = bucket[q]})]
        IN  \E q \in sampled :
                /\ detected_color = hex_color(bucket[q])
                /\ \A r \in sampled :
                      /\ count[r] <= count[q]
                      /\ (count[r] = count[q] /\ bucket[r] # bucket[q]) => rank[q] < rank[r]

C16_Witness ==
    /\ pc = "extracted"
    /\ img_rgb = << << <<200, 0, 0>>, <<3, 5, 9>>, <<3, 5, 9>>, <<200, 0, 0>> >> >>
    /\ detected_color = <<"#","C","8","0","0","0","0">>

\* C14: a step that normalises or merges leaves the caller's region records
\* and analysis records as they were (no field gained, lost or changed).
C14_InputsUnchanged ==
    [][pc' \in {"normalized", "merged", "rerun_done", "step3_done"} =>
          /\ text_regions' = text_regions
          /\ gemini_result' = gemini_result
          /\ gemini_results' = gemini_results
          /\ pc = "normalized" => normalized_gemini_result' = normalized_gemini_result]_vars

SchemaFields ==
    {"text", "role", "primary_font", "fallback_font", "font_weight", "text_case",
     "text_color", "cta_intent"}

WellFormedAnalysis(a) == a # None /\ SchemaFields \subseteq DOMAIN a

ResolverOutput(a) ==
    normalize_font_and_weight(GOOGLE_FONTS, a["primary_font"], a["fallback_font"],
                              a["font_weight"])

\* C15: the record of a region whose id matches a well-formed analysis carries
\* the resolver's family and weight for that analysis and the analysis's text,
\* case, colour, role and cta-intent values, in merge_results and in
\* run_pipeline alike.
C15_MergedRecordCarriesAnalysis ==
    /\ pc = "merged" =>
          \A i \in 1..Len(text_regions) :
              LET S == ItemsFor(gemini_result, text_regions[i]["id"])
              IN  (S # {} /\ WellFormedAnalysis(gemini_result[Max(S)]["analysis"])) =>
                      LET a == gemini_result[Max(S)]["analysis"]
                          m == merged_regions[i]["analysis"]
                      IN  /\ m # None
                          /\ <<m["normalized_font"], m["normalized_weight"]>> = ResolverOutput(a)
                          /\ \A f \in {"text", "text_case", "text_color", "role", "cta_intent"} :
                                f \in DOMAIN m /\ m[f] = a[f]
    /\ pc = "step3_done" =>
          \A i \in 1..Len(text_regions) :
              LET S == EntriesFor(gemini_results, text_regions[i]["id"])
              IN  (S # {} /\ "analysis" \in DOMAIN gemini_results[Max(S)]
                     /\ WellFormedAnalysis(gemini_results[Max(S)]["analysis"])) =>
                      LET a == gemini_results[Max(S)]["analysis"]
                          m == final_output_regions[i]["text_content"]
                      IN  /\ <<m["normalized_font"], m["normalized_weight"]>> = ResolverOutput(a)
                          /\ m["text"] = a["text"]
                          /\ m["text_case"] = a["text_case"]
                          /\ m["color"] = a["text_color"]
                          /\ m["role"] = a["role"]
                          /\ "cta_intent" \in DOMAIN m
                          /\ m["cta_intent"] = a["cta_intent"]

(***************************************************************************)
(* gemini_text_analysis_batch_v3.py                                        *)
(*                                                                         *)
(* response.text is kept as what json.loads makes of it: a list, another   *)
(* JSON value (here an object), or a JSONDecodeError.                      *)
(***************************************************************************)
Unparsable == [json |-> "JSONDecodeError"]

JsonArray(data) == [json |-> "list", data |-> data]

JsonObject(data) == [json |-> "object", data |-> data]

\* Lines 113-122: the try block around json.loads.
parse_predictions(text) ==
    IF text = Unparsable THEN << >>
    ELSE IF text["json"] = "list" THEN text["data"]
    ELSE <<text["data"]>>

Responses ==
    {JsonArray(data) : data \in SeqsUpTo(Analyses, MaxCrops + 1)}
        \cup {JsonObject(a) : a \in Analyses}
        \cup {Unparsable}

InitBatch ==
    /\ GOOGLE_FONTS = EmptyDict
    /\ pc = "batch"
    /\ primary_font = ""
    /\ fallback_font = ""
    /\ visual_weight = EmptyStr
    /\ requested_weight = 0
    /\ resolved = None
    /\ NoPipeline
    /\ NoColour
    /\ crop_image_paths \in SeqsUpTo(CropNames, MaxCrops)
    /\ response = None
    /\ predictions = None

\* analyze_text_crops_batch(crop_image_paths), the model answering with text.
AnalyzeBatch(text) ==
    /\ pc = "batch"
    /\ response' = text
    /\ predictions' = parse_predictions(text)
    /\ pc' = "batch_returned"
    /\ UNCHANGED <<crop_image_paths, colourVars, rerun_regions, GOOGLE_FONTS, resolverVars,
                   text_regions, gemini_result, normalized_gemini_result, merged_regions,
                   gemini_results, final_output_regions, raised>>

NextBatch == \E text \in Responses : AnalyzeBatch(text)

SpecBatch == InitBatch /\ [][NextBatch]_vars

\* C17: whatever the response (a JSON array, a single JSON object, unparsable
\* text), the batch call returns exactly as many predictions as crop paths.
C17_OnePredictionPerCrop ==
    pc = "batch_returned" => Len(predictions) = Len(crop_image_paths)

====
